---- MODULE Spec2Model ----
(***************************************************************************)
(* A model of the Nexus bot: the moderation cog (bot/cogs/Moderation.py),  *)
(* the help command (bot/cogs/Help.py), the utility cog                    *)
(* (bot/cogs/Utility.py), the developer cog (bot/plugins/Developer.py) and *)
(* the bot core (bot/utils/subclasses/bot.py).                             *)
(*                                                                         *)
(* A command handler is a coroutine.  It is modelled as a process whose    *)
(* program counter names the awaited call that is in flight; one action    *)
(* completes that call (its effect on the platform and its outcome) and    *)
(* runs the handler up to its next await.                                  *)
(***************************************************************************)
EXTENDS Integers, Sequences, FiniteSets, TLC

(***************************************************************************)
(* Bounds of the model.                                                    *)
(***************************************************************************)
\* Role positions of the guild are 1..MaxRank.
MaxRank == 2
\* A cog registers at most MaxCommands commands.
MaxCommands == 11
\* A fetched URL redirects at most MaxHops times.
MaxHops == 2
\* sync is given at most MaxGuilds guilds.
MaxGuilds == 3
\* The configuration lists at most MaxCogs extensions.
MaxCogs == 3
\* The Help extension is loaded at most MaxLoads times.
MaxLoads == 3

None == "None"

max(a, b) == IF a >= b THEN a ELSE b
min(a, b) == IF a <= b THEN a ELSE b

(***************************************************************************)
(* The guild of the moderation cog.                                        *)
(***************************************************************************)
\* The users that can invoke a command or be its target; Me is ctx.me.
Users == {"u1", "u2"}
Me == "me"
\* ctx.guild.channels, in iteration order.
Channels == <<"c1", "c2">>
ChannelSet == {Channels[i] : i \in 1..Len(Channels)}
\* What an awaited platform call may do: return, or raise discord.Forbidden
\* or another discord.HTTPException.
Outcomes == {"ok", "Forbidden", "HTTPException"}
\* The invocations that can be in flight together: the event loop runs the
\* handlers as tasks that interleave at their awaits.
Procs == {"p1", "p2"}
\* The one slot of invocations that run one after another.
Sequential == {"p1"}
\* Inputs of the commands.
DeleteDays == {-1, 0, 7, 8}
Rates == {-5, 0, 30, 21600, 21601, 999999}

VARIABLES
    \* ---- Moderation.py: the guild
    members,        \* the users that are members of ctx.guild
    banned,         \* the guild's ban list
    top_role,       \* Member.top_role, as the position of that role
    roles,          \* the roles of ctx.guild.roles whose name is "Muted"
    member_roles,   \* Member.roles, restricted to the Muted roles
    overwrites,     \* per channel, the roles set_permissions gave an overwrite
    slowmode_delay, \* per channel, TextChannel.slowmode_delay
    \* ---- Moderation.py: the invocations
    pc,             \* per process, the awaited call in flight
    ctx,            \* per process, the arguments of the invocation
    frame,          \* per process, the handler's local variables
    responses,      \* per process, the messages sent through ctx, in order
    calls,          \* per process, the platform mutations requested, in order
    overlapped,     \* whether an invocation ever started while another ran
    \* ---- Help.py
    cogs,           \* per cog of the bot: its hidden flag and its commands
    owner_id,       \* bot.owner_id
    owner_ids,      \* bot.owner_ids
    help_req,       \* the last help request: its author and its topic
    help_out,       \* what that request delivered through _send, in order
    help_command,   \* bot.help_command
    help_cog,       \* the Help cog: whether it is loaded, its _old_help_command
    nexus_helps,    \* the number of NexusHelp objects constructed
    help_first,     \* bot.help_command before the first load of Help
    \* ---- Utility.py
    redirect_req,   \* the last redirectcheck: the chain its fetch returned
    redirect_out,   \* the response of that redirectcheck
    rtfm_req,       \* the last rtfm: the words of its invocation
    rtfm_out,       \* the response of that rtfm
    ocr_req,        \* the last ocr: its text, its attachments, what it fetched
    ocr_out,        \* the response of that ocr and the image it read
    \* ---- Developer.py
    tree,           \* bot.tree: the commands of the global scope and of each guild
    sync_pc,        \* the awaited call of the running sync
    sync_args,      \* guilds and spec of the running sync
    sync_frame,     \* its local variables: the loop position, ret, synced
    sync_log,       \* the operations it made on bot.tree, in order
    sync_sent,      \* the reports it sent through ctx.send
    \* ---- bot.py
    load_pc,        \* where Nexus.__init__ is
    config_cogs,    \* self.config.data.cogs
    load_frame,     \* the position of its loop
    load_log,       \* the load_extension calls made, in order
    printed,        \* the extensions whose traceback was printed, in order
    extensions      \* the extensions that are loaded

modVars == <<members, banned, top_role, roles, member_roles, overwrites,
             slowmode_delay, pc, ctx, frame, responses, calls, overlapped>>
guildVars == <<members, banned, top_role, roles, member_roles, overwrites,
               slowmode_delay>>
swapVars == <<help_command, help_cog, nexus_helps, help_first>>
helpVars == <<cogs, owner_id, owner_ids, help_req, help_out, swapVars>>
ocrVars == <<ocr_req, ocr_out>>
utilVars == <<redirect_req, redirect_out, rtfm_req, rtfm_out, ocrVars>>
devVars == <<tree, sync_pc, sync_args, sync_frame, sync_log, sync_sent>>
botVars == <<load_pc, config_cogs, load_frame, load_log, printed, extensions>>
\* The state outside the moderation cog.
notMod == <<helpVars, utilVars, devVars, botVars>>
\* The state outside the help command.
notHelp == <<modVars, utilVars, devVars, botVars>>
\* The state outside the utility cog.
notUtil == <<modVars, helpVars, devVars, botVars>>
\* The state outside the developer cog.
notDev == <<modVars, helpVars, utilVars, botVars>>
\* The state outside the construction of the bot.
notBot == <<modVars, helpVars, utilVars, devVars>>

NoCtx == [cmd |-> None, author |-> None, member |-> None, kind |-> None,
          delete_days |-> 0, rate |-> 0, channel |-> None, here |-> None]
NoFrame == [role |-> 0, i |-> 0, rate |-> 0, channel |-> None, msg |-> <<>>]

ModInit ==
    /\ members = Users
    /\ banned = {}
    /\ top_role \in [Users \cup {Me} -> 1..MaxRank]
    /\ roles = {}
    /\ member_roles = [u \in Users |-> {}]
    /\ overwrites = [c \in ChannelSet |-> {}]
    /\ slowmode_delay = [c \in ChannelSet |-> 0]
    /\ pc = [p \in Procs |-> "idle"]
    /\ ctx = [p \in Procs |-> NoCtx]
    /\ frame = [p \in Procs |-> NoFrame]
    /\ responses = [p \in Procs |-> <<>>]
    /\ calls = [p \in Procs |-> <<>>]
    /\ overlapped = FALSE

\* The moderation cog with a fixed hierarchy of roles.
ModIdle == ModInit /\ top_role = [u \in Users \cup {Me} |-> 1]

(***************************************************************************)
(* The help command: its state.                                            *)
(***************************************************************************)
\* PER_PAGE = 10
PER_PAGE == 10
\* The cogs of the bot, in the order of bot.cogs.
HelpCogs == <<"A", "B">>
HelpCogSet == {HelpCogs[i] : i \in 1..Len(HelpCogs)}
\* The users that ask for help.
Authors == {"u1", "u2", "u3"}
\* cog.get_commands() of a cog with n commands: the commands 1..n.
Commands(n) == [i \in 1..n |-> i]

NoHelp == [kind |-> None, author |-> None, topic |-> None]

\* The values of bot.help_command: the library's default help command, none,
\* and the n-th NexusHelp constructed.
DefaultHelpCommand == [cls |-> "DefaultHelpCommand", id |-> 0]
NoHelpCommand == [cls |-> None, id |-> 0]
NexusHelp(n) == [cls |-> "NexusHelp", id |-> n]
\* The Help cog is not loaded.
NoHelpCog == [loaded |-> FALSE, _old_help_command |-> NoHelpCommand]

\* The Help extension loaded once into a bot with the default help command.
HelpLoaded ==
    /\ help_command = NexusHelp(1)
    /\ help_cog = [loaded |-> TRUE, _old_help_command |-> DefaultHelpCommand]
    /\ nexus_helps = 1
    /\ help_first = DefaultHelpCommand

\* The bot with its cogs loaded and its owners configured: u1 is the owner
\* named by owner_id, u2 the one of owner_ids, u3 is no owner.
HelpInit ==
    /\ cogs \in [HelpCogSet -> [hidden : BOOLEAN,
                                 commands : {Commands(n) : n \in 0..MaxCommands}]]
    /\ owner_id = "u1"
    /\ owner_ids = {"u2"}
    /\ help_req = NoHelp
    /\ help_out = <<>>
    /\ HelpLoaded

\* One such bot.
HelpIdle ==
    /\ HelpInit
    /\ cogs = [c \in HelpCogSet |-> [hidden |-> FALSE, commands |-> Commands(1)]]

(***************************************************************************)
(* The utility cog: its state.                                             *)
(***************************************************************************)
NoRedirect == [fetch |-> None, history |-> <<>>, outcome |-> None]
NoRtfm == [invoked |-> FALSE, first |-> None, rest |-> <<>>, location |-> None,
           query |-> <<>>, found |-> FALSE, outcome |-> None]
\* A response of the cog: an error text, a list of lines, a base URL.
Response(kind, text, urls, about) ==
    [kind |-> kind, text |-> text, urls |-> urls, about |-> about]

NoOcr == [invoked |-> FALSE, text |-> <<>>, fetch |-> None, own |-> None,
          ref |-> None, outcome |-> None]
\* The local variable `image` holding None.
NoImage == [from |-> None, bytes |-> None]
\* The result of an ocr: what was sent, the bytes that were read, the flag.
OcrResult(kind, image, invert) == [kind |-> kind, image |-> image, invert |-> invert]

UtilInit ==
    /\ ocr_req = NoOcr
    /\ ocr_out = OcrResult(None, NoImage, FALSE)
    /\ redirect_req = NoRedirect
    /\ redirect_out = Response(None, <<>>, <<>>, None)
    /\ rtfm_req = NoRtfm
    /\ rtfm_out = Response(None, <<>>, <<>>, None)

(***************************************************************************)
(* The developer cog and the bot core: their state.                        *)
(***************************************************************************)
\* The guilds sync can be given; ctx.guild is Here.
Guilds == {"g1", "g2", "g3"}
Here == "g1"
Global == "global"
\* The values of the spec parameter of sync.
SyncSpecs == {None, "~", "*", "^", "^*"}

NoSync == [guilds |-> <<>>, spec |-> None]
NoSyncFrame == [i |-> 0, ret |-> 0, synced |-> 0, report |-> <<>>]

\* The command tree holds one global command and one command of ctx.guild.
DevInit ==
    /\ tree = [g \in Guilds \cup {Global} |->
                 IF g = Global THEN {"global_cmd"}
                 ELSE IF g = Here THEN {"guild_cmd"} ELSE {}]
    /\ sync_pc = "idle"
    /\ sync_args = NoSync
    /\ sync_frame = NoSyncFrame
    /\ sync_log = <<>>
    /\ sync_sent = <<>>

\* The extensions the configuration can name.
CogNames == {"cogs.Help", "cogs.Moderation", "cogs.Utility"}

\* Nexus.__init__ has not run its first statement.
BotInit ==
    /\ load_pc = "init"
    /\ config_cogs = <<>>
    /\ load_frame = 0
    /\ load_log = <<>>
    /\ printed = <<>>
    /\ extensions = {}

(***************************************************************************)
(* The messages of the moderation cog.  A message is the tuple of the      *)
(* pieces its f-string joins.                                              *)
(***************************************************************************)
SelfError(cmd) ==
    CASE cmd = "ban" -> <<"You cannot ban yourself!">>
      [] cmd = "unban" -> <<"You cannot unban yourself!">>
      [] cmd = "mute" -> <<"You cannot mute yourself!">>
      [] cmd = "unmute" -> <<"You cannot unmute yourself!">>
      [] cmd = "kick" -> <<"You can't kick yourself!">>

RangeError == <<"You can only delete messages from a range 0-7 days!">>
HigherThanYou(m) == <<m, " has a higher role than you!">>
HigherThanMe(m) == <<m, " has a higher role than me!">>
AlreadyMuted(m) == <<m, " is already muted!">>
NotMuted(m) == <<m, " is not muted!">>
ForbiddenError == <<"I couldn't do that for some reason!">>

DoneMessage(c, f) ==
    CASE c.cmd = "ban" -> <<"Done!", "Successfully banned ", c.member>>
      [] c.cmd = "unban" -> <<"Done!", "Successfully unbanned ", c.member>>
      [] c.cmd = "mute" -> <<"Done!", "Successfully muted ", c.member>>
      [] c.cmd = "unmute" -> <<"Done!", "Successfully unmuted ", c.member>>
      [] c.cmd = "kick" -> <<"Done!", "Successfully kicked ", c.member>>
      [] c.cmd = "slowmode" ->
            <<"Done!", "Successfully changed the slowmode to ", f.rate>>

FailedError(c) ==
    CASE c.cmd = "ban" -> <<"Banning ", c.member, " failed!">>
      [] c.cmd = "unban" -> <<"Unbanning ", c.member, " failed!">>
      [] c.cmd = "mute" -> <<"Muting ", c.member, " failed!">>
      [] c.cmd = "unmute" -> <<"Unmuting ", c.member, " failed!">>
      [] c.cmd = "kick" -> <<"Unmuting ", c.member, " failed!">>
      [] c.cmd = "slowmode" -> <<"Changing slowmode failed!">>

(***************************************************************************)
(* Steps shared by the handlers.                                           *)
(***************************************************************************)
\* Role.__lt__ on two roles of one guild: the order of their positions.
role_lt(a, b) == a < b

\* `member.id == ctx.author.id`, compared against the bot's own id instead.
is_self_me(c) == c.member = Me
\* `member.id == ctx.author.id`
is_self(c) == c.member = c.author

\* The range check of _ban with both comparisons one off.
out_of_range_off_by_one(d) == d <= 0 \/ d >= 7
\* `delete_days < 0 or delete_days > 7`
out_of_range(d) == d < 0 \/ d > 7

\* A process can take a new invocation when it runs none.
Free(p) == pc[p] \in {"idle", "returned", "raised"}

\* An invocation starts: its arguments are bound and its logs are empty.
Begin(p, c) ==
    /\ ctx' = [ctx EXCEPT ![p] = c]
    /\ responses' = [responses EXCEPT ![p] = <<>>]
    /\ calls' = [calls EXCEPT ![p] = <<>>]
    /\ overlapped' = (overlapped \/ \E q \in Procs \ {p} : ~Free(q))

\* The handler reaches `await <call>` with the message msg (when it sends one).
Await(p, call, f) ==
    /\ pc' = [pc EXCEPT ![p] = call]
    /\ frame' = [frame EXCEPT ![p] = f]

\* An exception leaves the handler.
Raise(p, f) ==
    /\ pc' = [pc EXCEPT ![p] = "raised"]
    /\ frame' = [frame EXCEPT ![p] = f]

\* ctx.error / ctx.paginate has completed with outcome o.
Sent(p, via, o) ==
    responses' = [responses EXCEPT ![p] =
                     Append(@, [via |-> via, msg |-> frame[p].msg, outcome |-> o])]

\* A platform mutation has completed with outcome o.
Called(p, op, args, o) ==
    calls' = [calls EXCEPT ![p] = Append(@, [op |-> op, args |-> args, outcome |-> o])]

\* The continuation of a call awaited inside `try:` whose `except` clauses
\* are Forbidden and HTTPException: the success response or an error.
Try(p, o) ==
    LET f == frame[p] IN
    CASE o = "ok" -> Await(p, "paginate", [f EXCEPT !.msg = DoneMessage(ctx[p], f)])
      [] o = "Forbidden" -> Await(p, "except_Forbidden", [f EXCEPT !.msg = ForbiddenError])
      [] o = "HTTPException" ->
            Await(p, "except_HTTPException", [f EXCEPT !.msg = FailedError(ctx[p])])

\* The self-targeting check and the role-hierarchy checks that open _unban,
\* _mute, _unmute and _kick.  c is the invocation, f its frame; `pass` is what
\* the handler does when no check rejects.  A plain User has no top_role:
\* reading it raises AttributeError.
Guards(p, c, f, pass) ==
    IF is_self(c)
      THEN Await(p, "return_error", [f EXCEPT !.msg = SelfError(c.cmd)])
    ELSE IF c.kind = "User"
      THEN Raise(p, f)
    ELSE IF role_lt(top_role[c.author], top_role[c.member])
      THEN Await(p, "return_error", [f EXCEPT !.msg = HigherThanYou(c.member)])
    ELSE IF role_lt(top_role[Me], top_role[c.member])
      THEN Await(p, "return_error", [f EXCEPT !.msg = HigherThanMe(c.member)])
    ELSE pass

\* `return await ctx.error(...)` completes: the handler returns, or the
\* delivery failure leaves the handler.
return_error(p) ==
    /\ pc[p] = "return_error"
    /\ \E o \in Outcomes :
        /\ Sent(p, "error", o)
        /\ pc' = [pc EXCEPT ![p] = IF o = "ok" THEN "returned" ELSE "raised"]
    /\ UNCHANGED <<guildVars, ctx, overlapped, frame, calls>>
    /\ UNCHANGED notMod

\* `await ctx.paginate(Embed(title="Done!", ...))` inside the try completes.
paginate(p) ==
    /\ pc[p] = "paginate"
    /\ \E o \in Outcomes :
        /\ Sent(p, "paginate", o)
        /\ CASE o = "ok" -> pc' = [pc EXCEPT ![p] = "returned"] /\ UNCHANGED frame
             [] o = "Forbidden" ->
                   Await(p, "except_Forbidden", [frame[p] EXCEPT !.msg = ForbiddenError])
             [] o = "HTTPException" ->
                   Await(p, "except_HTTPException",
                         [frame[p] EXCEPT !.msg = FailedError(ctx[p])])
    /\ UNCHANGED <<guildVars, ctx, overlapped, calls>>
    /\ UNCHANGED notMod

\* `await ctx.error("I couldn't do that for some reason!")` completes.
except_Forbidden(p) ==
    /\ pc[p] = "except_Forbidden"
    /\ \E o \in Outcomes :
        /\ Sent(p, "error", o)
        /\ pc' = [pc EXCEPT ![p] = IF o = "ok" THEN "returned" ELSE "raised"]
    /\ UNCHANGED <<guildVars, ctx, overlapped, frame, calls>>
    /\ UNCHANGED notMod

\* `await ctx.error(f"... failed!")` completes.
except_HTTPException(p) ==
    /\ pc[p] = "except_HTTPException"
    /\ \E o \in Outcomes :
        /\ Sent(p, "error", o)
        /\ pc' = [pc EXCEPT ![p] = IF o = "ok" THEN "returned" ELSE "raised"]
    /\ UNCHANGED <<guildVars, ctx, overlapped, frame, calls>>
    /\ UNCHANGED notMod

(***************************************************************************)
(* Moderation._ban                                                         *)
(***************************************************************************)
\* The handler from `try:` on: guild.ban is awaited.
_ban_try(p, f) == Await(p, "guild_ban", f)

\* ban is invoked; the handler runs to its first await.
_ban(p) ==
    /\ Free(p)
    /\ \E a \in members, m \in Users, d \in DeleteDays :
        LET c == [NoCtx EXCEPT !.cmd = "ban", !.author = a, !.member = m,
                               !.delete_days = d] IN
        /\ Begin(p, c)
        /\ IF is_self(c)
             THEN Await(p, "return_error", [NoFrame EXCEPT !.msg = SelfError("ban")])
           ELSE IF out_of_range(d)
             THEN Await(p, "_ban_range_error", [NoFrame EXCEPT !.msg = RangeError])
           ELSE _ban_try(p, NoFrame)
    /\ UNCHANGED guildVars
    /\ UNCHANGED notMod

\* `await ctx.error("You can only delete messages ...")` completes; the
\* handler does not return after it.
_ban_range_error(p) ==
    /\ pc[p] = "_ban_range_error"
    /\ \E o \in Outcomes :
        /\ Sent(p, "error", o)
        /\ IF o = "ok" THEN _ban_try(p, frame[p]) ELSE Raise(p, frame[p])
    /\ UNCHANGED <<guildVars, ctx, overlapped, calls>>
    /\ UNCHANGED notMod

\* `await ctx.guild.ban(member, delete_message_days=delete_days, ...)` completes.
guild_ban(p) ==
    /\ pc[p] = "guild_ban"
    /\ \E o \in Outcomes :
        LET m == ctx[p].member IN
        /\ Called(p, "guild.ban", [member |-> m, days |-> ctx[p].delete_days], o)
        /\ IF o = "ok"
             THEN /\ banned' = banned \cup {m}
                  /\ members' = members \ {m}
                  /\ member_roles' = [member_roles EXCEPT ![m] = {}]
             ELSE UNCHANGED <<banned, members, member_roles>>
        /\ Try(p, o)
    /\ UNCHANGED <<top_role, roles, overwrites, slowmode_delay, ctx, overlapped, responses>>
    /\ UNCHANGED notMod

(***************************************************************************)
(* Moderation._unban                                                       *)
(***************************************************************************)
\* unban is invoked.  The User converter yields a plain User, or the Member
\* object of a mentioned member of the guild.
_unban(p) ==
    /\ Free(p)
    /\ \E a \in members, m \in Users, k \in {"User", "Member"} :
        LET c == [NoCtx EXCEPT !.cmd = "unban", !.author = a, !.member = m,
                               !.kind = k] IN
        /\ k = "Member" => m \in members
        /\ Begin(p, c)
        /\ Guards(p, c, NoFrame, Await(p, "guild_unban", NoFrame))
    /\ UNCHANGED guildVars
    /\ UNCHANGED notMod

\* `await ctx.guild.unban(member, ...)` completes; the platform has no ban to
\* lift for a user that is not banned.
guild_unban(p) ==
    /\ pc[p] = "guild_unban"
    /\ \E o \in Outcomes :
        LET m == ctx[p].member IN
        /\ o = "ok" => m \in banned
        /\ Called(p, "guild.unban", [member |-> m], o)
        /\ banned' = IF o = "ok" THEN banned \ {m} ELSE banned
        /\ Try(p, o)
    /\ UNCHANGED <<members, top_role, roles, member_roles, overwrites,
                   slowmode_delay, ctx, overlapped, responses>>
    /\ UNCHANGED notMod

(***************************************************************************)
(* Moderation._mute                                                        *)
(***************************************************************************)
\* A lookup that never finds the role.
get_nothing(rs) == {0}
\* discord.utils.get(ctx.guild.roles, name="Muted"): the roles it can return.
get(rs) == IF rs = {} THEN {0} ELSE rs

\* _mute adding the role without looking at the roles of the member.
_mute_apply_always(p, c, f, r) == Await(p, "add_roles", [f EXCEPT !.role = r])
\* _mute from `if role in member.roles:` on, with the local variable role = r.
_mute_apply(p, c, f, r) ==
    IF r \in member_roles[c.member]
      THEN Await(p, "return_error", [f EXCEPT !.role = r, !.msg = AlreadyMuted(c.member)])
      ELSE Await(p, "add_roles", [f EXCEPT !.role = r])

\* mute is invoked; the Member converter only yields members of the guild.
_mute(p) ==
    /\ Free(p)
    /\ \E a \in members, m \in members :
        LET c == [NoCtx EXCEPT !.cmd = "mute", !.author = a, !.member = m,
                               !.kind = "Member"] IN
        /\ Begin(p, c)
        /\ Guards(p, c, NoFrame,
                  \E r \in get(roles) :
                      IF r = 0 THEN Await(p, "create_role", NoFrame)
                               ELSE _mute_apply(p, c, NoFrame, r))
    /\ UNCHANGED guildVars
    /\ UNCHANGED notMod

\* `role = await ctx.guild.create_role(name="Muted", ...)` completes, outside
\* any try; the loop over ctx.guild.channels starts.
create_role(p) ==
    /\ pc[p] = "create_role"
    /\ \E o \in Outcomes :
        LET r == Cardinality(roles) + 1 IN
        /\ Called(p, "guild.create_role", [name |-> "Muted"], o)
        /\ IF o = "ok"
             THEN /\ roles' = roles \cup {r}
                  /\ IF Len(Channels) > 0
                       THEN Await(p, "set_permissions", [frame[p] EXCEPT !.role = r, !.i = 1])
                       ELSE _mute_apply(p, ctx[p], frame[p], r)
             ELSE /\ UNCHANGED roles
                  /\ Raise(p, frame[p])
    /\ UNCHANGED <<members, banned, top_role, member_roles, overwrites,
                   slowmode_delay, ctx, overlapped, responses>>
    /\ UNCHANGED notMod

\* `await channel.set_permissions(role, ...)` completes for one channel of
\* the loop, outside any try.
set_permissions(p) ==
    /\ pc[p] = "set_permissions"
    /\ \E o \in Outcomes :
        LET f == frame[p]
            ch == Channels[f.i] IN
        /\ Called(p, "channel.set_permissions", [channel |-> ch, role |-> f.role], o)
        /\ IF o = "ok"
             THEN /\ overwrites' = [overwrites EXCEPT ![ch] = @ \cup {f.role}]
                  /\ IF f.i < Len(Channels)
                       THEN Await(p, "set_permissions", [f EXCEPT !.i = f.i + 1])
                       ELSE _mute_apply(p, ctx[p], f, f.role)
             ELSE /\ UNCHANGED overwrites
                  /\ Raise(p, f)
    /\ UNCHANGED <<members, banned, top_role, roles, member_roles,
                   slowmode_delay, ctx, overlapped, responses>>
    /\ UNCHANGED notMod

\* `await member.add_roles(role, ...)` completes; only a member of the guild
\* can be given a role.
add_roles(p) ==
    /\ pc[p] = "add_roles"
    /\ \E o \in Outcomes :
        LET m == ctx[p].member IN
        /\ o = "ok" => m \in members
        /\ Called(p, "member.add_roles", [member |-> m, role |-> frame[p].role], o)
        /\ member_roles' = IF o = "ok"
                             THEN [member_roles EXCEPT ![m] = @ \cup {frame[p].role}]
                             ELSE member_roles
        /\ Try(p, o)
    /\ UNCHANGED <<members, banned, top_role, roles, overwrites, slowmode_delay,
                   ctx, overlapped, responses>>
    /\ UNCHANGED notMod

(***************************************************************************)
(* Moderation._unmute                                                      *)
(***************************************************************************)
_unmute(p) ==
    /\ Free(p)
    /\ \E a \in members, m \in members :
        LET c == [NoCtx EXCEPT !.cmd = "unmute", !.author = a, !.member = m,
                               !.kind = "Member"] IN
        /\ Begin(p, c)
        /\ Guards(p, c, NoFrame,
                  \E r \in get(roles) :
                      IF r = 0 \/ r \notin member_roles[m]
                        THEN Await(p, "return_error",
                                   [NoFrame EXCEPT !.role = r, !.msg = NotMuted(m)])
                        ELSE Await(p, "remove_roles", [NoFrame EXCEPT !.role = r]))
    /\ UNCHANGED guildVars
    /\ UNCHANGED notMod

\* `await member.remove_roles(role, ...)` completes.
remove_roles(p) ==
    /\ pc[p] = "remove_roles"
    /\ \E o \in Outcomes :
        LET m == ctx[p].member IN
        /\ o = "ok" => m \in members
        /\ Called(p, "member.remove_roles", [member |-> m, role |-> frame[p].role], o)
        /\ member_roles' = IF o = "ok"
                             THEN [member_roles EXCEPT ![m] = @ \ {frame[p].role}]
                             ELSE member_roles
        /\ Try(p, o)
    /\ UNCHANGED <<members, banned, top_role, roles, overwrites, slowmode_delay,
                   ctx, overlapped, responses>>
    /\ UNCHANGED notMod

(***************************************************************************)
(* Moderation._kick                                                        *)
(***************************************************************************)
_kick(p) ==
    /\ Free(p)
    /\ \E a \in members, m \in members :
        LET c == [NoCtx EXCEPT !.cmd = "kick", !.author = a, !.member = m,
                               !.kind = "Member"] IN
        /\ Begin(p, c)
        /\ Guards(p, c, NoFrame, Await(p, "guild_kick", NoFrame))
    /\ UNCHANGED guildVars
    /\ UNCHANGED notMod

\* `await ctx.guild.kick(member, reason=reason)` completes.
guild_kick(p) ==
    /\ pc[p] = "guild_kick"
    /\ \E o \in Outcomes :
        LET m == ctx[p].member IN
        /\ o = "ok" => m \in members
        /\ Called(p, "guild.kick", [member |-> m], o)
        /\ IF o = "ok"
             THEN /\ members' = members \ {m}
                  /\ member_roles' = [member_roles EXCEPT ![m] = {}]
             ELSE UNCHANGED <<members, member_roles>>
        /\ Try(p, o)
    /\ UNCHANGED <<banned, top_role, roles, overwrites, slowmode_delay, ctx, overlapped, responses>>
    /\ UNCHANGED notMod

(***************************************************************************)
(* Moderation._slowmode                                                    *)
(***************************************************************************)
\* The clamp of _slowmode without its lower end.
clamp_no_floor(rate) == min(rate, 21600)
\* rate = max(min(rate, 21600), 0)
clamp(rate) == max(min(rate, 21600), 0)

\* slowmode is invoked in the channel `here`, with an optional channel.
_slowmode(p) ==
    /\ Free(p)
    /\ \E a \in members, ch \in ChannelSet \cup {None}, here \in ChannelSet, r \in Rates :
        LET c == [NoCtx EXCEPT !.cmd = "slowmode", !.author = a, !.channel = ch,
                               !.here = here, !.rate = r] IN
        /\ Begin(p, c)
        /\ Await(p, "channel_edit",
                 [NoFrame EXCEPT !.rate = clamp(r),
                                 !.channel = IF ch # None THEN ch ELSE here])
    /\ UNCHANGED guildVars
    /\ UNCHANGED notMod

\* `await channel.edit(slowmode_delay=rate, ...)` completes.
channel_edit(p) ==
    /\ pc[p] = "channel_edit"
    /\ \E o \in Outcomes :
        LET f == frame[p] IN
        /\ Called(p, "channel.edit", [channel |-> f.channel, slowmode_delay |-> f.rate], o)
        /\ slowmode_delay' = IF o = "ok"
                               THEN [slowmode_delay EXCEPT ![f.channel] = f.rate]
                               ELSE slowmode_delay
        /\ Try(p, o)
    /\ UNCHANGED <<members, banned, top_role, roles, member_roles, overwrites,
                   ctx, overlapped, responses>>
    /\ UNCHANGED notMod

(***************************************************************************)
(* The moderation cog, its member commands run one after another.          *)
(***************************************************************************)
Init == ModInit /\ HelpIdle /\ UtilInit /\ DevInit /\ BotInit

Next ==
    \E p \in Sequential :
        \/ _ban(p) \/ _ban_range_error(p) \/ guild_ban(p)
        \/ _unban(p) \/ guild_unban(p)
        \/ _mute(p) \/ create_role(p) \/ set_permissions(p) \/ add_roles(p)
        \/ _unmute(p) \/ remove_roles(p)
        \/ _kick(p) \/ guild_kick(p)
        \/ return_error(p) \/ paginate(p)
        \/ except_Forbidden(p) \/ except_HTTPException(p)

vars == <<modVars, helpVars, utilVars, devVars, botVars>>

Spec == Init /\ [][Next]_vars

\* The slowmode command alone.
NextSlowmode ==
    \E p \in Sequential :
        \/ _slowmode(p) \/ channel_edit(p)
        \/ paginate(p)
        \/ except_Forbidden(p) \/ except_HTTPException(p)

\* slowmode reads no role: the hierarchy of the guild is fixed here.
InitSlowmode == ModIdle /\ HelpIdle /\ UtilInit /\ DevInit /\ BotInit

SpecSlowmode == InitSlowmode /\ [][NextSlowmode]_vars

\* Two mute invocations, each run by a handler of its own: the handlers
\* interleave at their awaits, or one starts when the other has ended.
NextRace ==
    \E p \in Procs :
        \/ (pc[p] = "idle" /\ _mute(p))
        \/ create_role(p) \/ set_permissions(p) \/ add_roles(p)
        \/ return_error(p) \/ paginate(p)
        \/ except_Forbidden(p) \/ except_HTTPException(p)

SpecRace == InitSlowmode /\ [][NextRace]_vars

(***************************************************************************)
(* Properties of the moderation cog.                                       *)
(***************************************************************************)
\* The messages process p has sent or is sending, in order.
Emitted(p) ==
    IF pc[p] \in {"return_error", "_ban_range_error", "paginate",
                  "except_Forbidden", "except_HTTPException"}
      THEN [i \in 1..Len(responses[p]) |-> responses[p][i].msg] \o <<frame[p].msg>>
      ELSE [i \in 1..Len(responses[p]) |-> responses[p][i].msg]
\* The invocation of p has ended.
Ended(p) == pc[p] \in {"returned", "raised"}
\* The platform mutation of p that is in flight, if any.
Mutating(p) == pc[p] \in {"guild_ban", "guild_unban", "create_role", "set_permissions",
                          "add_roles", "remove_roles", "guild_kick", "channel_edit"}
Delivered(p, msg) ==
    \E i \in 1..Len(responses[p]) :
        responses[p][i].msg = msg /\ responses[p][i].outcome = "ok"

HierarchyCmds == {"unban", "mute", "unmute", "kick"}
SelfCmds == {"ban", "unban", "mute", "unmute", "kick"}

\* C1: for unban, mute, unmute and kick with a target other than the invoker,
\* whenever the target's top role is greater than or equal to the invoker's
\* top role, or to the bot's, the invocation sends only the matching 'has a
\* higher role than you/me!' error and requests no platform mutation.
C1_HierarchyGuardRejectsEqual ==
    \A p \in Procs :
        LET c == ctx[p] IN
        (/\ c.cmd \in HierarchyCmds
         /\ c.kind = "Member"
         /\ c.member # c.author
         /\ \/ top_role[c.member] >= top_role[c.author]
            \/ top_role[c.member] >= top_role[Me])
        => /\ calls[p] = <<>>
           /\ ~Mutating(p)
           /\ Emitted(p) = IF top_role[c.member] >= top_role[c.author]
                             THEN <<HigherThanYou(c.member)>>
                             ELSE <<HigherThanMe(c.member)>>

\* What the code does instead (not a claim): only a strictly higher target
\* is rejected.
HierarchyGuardRejectsHigher ==
    \A p \in Procs :
        LET c == ctx[p] IN
        (/\ c.cmd \in HierarchyCmds
         /\ c.kind = "Member"
         /\ c.member # c.author
         /\ \/ top_role[c.member] > top_role[c.author]
            \/ top_role[c.member] > top_role[Me])
        => /\ calls[p] = <<>>
           /\ ~Mutating(p)
           /\ Emitted(p) = IF top_role[c.member] > top_role[c.author]
                             THEN <<HigherThanYou(c.member)>>
                             ELSE <<HigherThanMe(c.member)>>

\* C2: for ban, unban, mute, unmute and kick, an invocation whose target is
\* the invoker sends exactly one message, the self-targeting error of that
\* command, and requests no platform mutation, whatever delete_days is.
C2_SelfTargetGuard ==
    \A p \in Procs :
        LET c == ctx[p] IN
        (c.cmd \in SelfCmds /\ c.member = c.author)
        => /\ calls[p] = <<>>
           /\ pc[p] \in {"return_error", "returned", "raised"}
           /\ Emitted(p) = <<SelfError(c.cmd)>>
           /\ \A i \in 1..Len(responses[p]) : responses[p][i].via = "error"

\* C2 has acted: a ban of oneself with delete_days out of range has returned
\* after its one error.
C2_Witness ==
    \E p \in Procs :
        /\ ctx[p].cmd = "ban" /\ ctx[p].member = ctx[p].author
        /\ ctx[p].delete_days = 8
        /\ pc[p] = "returned"
        /\ Delivered(p, SelfError("ban"))

\* C3: in a ban of somebody else, the range error is sent if and only if
\* delete_days is outside 0..7; once that error is delivered the handler goes
\* on, and every ban it requests carries delete_days as given.
C3_BanRangeError ==
    \A p \in Procs :
        LET c == ctx[p]
            outside == c.delete_days \notin 0..7 IN
        (c.cmd = "ban" /\ c.member # c.author)
        => /\ (\E i \in 1..Len(Emitted(p)) : Emitted(p)[i] = RangeError) <=> outside
           /\ outside => Emitted(p)[1] = RangeError
           /\ (outside /\ Delivered(p, RangeError))
                => (pc[p] = "guild_ban" \/ Len(calls[p]) = 1)
           /\ \A i \in 1..Len(calls[p]) :
                /\ calls[p][i].op = "guild.ban"
                /\ calls[p][i].args = [member |-> c.member, days |-> c.delete_days]

\* C3 has acted: one invocation delivered the range error and then 'Done!'.
C3_Witness ==
    \E p \in Procs :
        /\ ctx[p].cmd = "ban" /\ ctx[p].delete_days = 8
        /\ pc[p] = "returned"
        /\ Delivered(p, RangeError)
        /\ Delivered(p, <<"Done!", "Successfully banned ", ctx[p].member>>)
        /\ calls[p] = <<[op |-> "guild.ban",
                         args |-> [member |-> ctx[p].member, days |-> 8],
                         outcome |-> "ok"]>>
        /\ ctx[p].member \in banned

\* C4: slowmode edits the supplied channel, or the invocation's channel when
\* none is supplied, with the rate clamped into 0..21600, and its success
\* message names that clamped rate.
C4_SlowmodeClamp ==
    \A p \in Procs :
        LET c == ctx[p]
            applied == IF c.rate > 21600 THEN 21600
                       ELSE IF c.rate < 0 THEN 0 ELSE c.rate
            target == IF c.channel = None THEN c.here ELSE c.channel IN
        c.cmd = "slowmode"
        => /\ applied \in 0..21600
           /\ pc[p] = "channel_edit" =>
                (frame[p].rate = applied /\ frame[p].channel = target)
           /\ \A i \in 1..Len(calls[p]) :
                /\ calls[p][i].op = "channel.edit"
                /\ calls[p][i].args = [channel |-> target, slowmode_delay |-> applied]
                /\ calls[p][i].outcome = "ok" => slowmode_delay[target] = applied
           /\ \A i \in 1..Len(responses[p]) :
                responses[p][i].via = "paginate" =>
                    responses[p][i].msg =
                        <<"Done!", "Successfully changed the slowmode to ", applied>>

\* C4 has acted: a rate above the maximum, given without a channel, was
\* applied to the invocation's channel as 21600 and reported as 21600.
C4_Witness ==
    \E p \in Procs :
        /\ ctx[p].cmd = "slowmode" /\ ctx[p].rate = 999999 /\ ctx[p].channel = None
        /\ pc[p] = "returned"
        /\ slowmode_delay[ctx[p].here] = 21600
        /\ Delivered(p, <<"Done!", "Successfully changed the slowmode to ", 21600>>)

(***************************************************************************)
(* Help.py: NexusHelp                                                      *)
(***************************************************************************)
\* _show with the owner test made before the test for an empty cog.
_show_owner_first(cog, author) ==
    IF author = owner_id \/ author \in owner_ids THEN TRUE
    ELSE IF Len(cogs[cog].commands) = 0 THEN FALSE
    ELSE ~cogs[cog].hidden
\* NexusHelp._show of a cog, for the invoker `author`.
_show(cog, author) ==
    IF Len(cogs[cog].commands) = 0 THEN FALSE
    ELSE IF author = owner_id \/ author \in owner_ids THEN TRUE
    ELSE ~cogs[cog].hidden

\* The keys of the mapping send_bot_help is given: the cogs, and None for the
\* commands of no cog.
mapping_keys == HelpCogs \o <<None>>

\* `[cog for cog in mapping.keys() if cog and self._show(cog)]`
_get_bot_help(author) ==
    LET visible(cog) == cog # None /\ _show(cog, author) IN
    SelectSeq(mapping_keys, visible)

\* Python's s[lo:hi] for 0 <= lo and 0 <= hi.
slice(s, lo, hi) == SubSeq(s, lo + 1, min(hi, Len(s)))

\* range(0, n, PER_PAGE) as a sequence.
page_starts(n) == [k \in 1..((n + PER_PAGE - 1) \div PER_PAGE) |-> (k - 1) * PER_PAGE]

\* `[commands[i:PER_PAGE] for i in range(0, len(commands), PER_PAGE)]`
grouped(commands) ==
    LET starts == page_starts(Len(commands)) IN
    [k \in 1..Len(starts) |-> slice(commands, starts[k], PER_PAGE)]

\* HelpCommand.filter_commands: the commands the invoker may run, in order.
filter_commands(commands, removed) ==
    LET keep(c) == c \notin removed IN SelectSeq(commands, keep)

\* One delivery through NexusHelp._send.
Delivery(kind, body, o) == [kind |-> kind, body |-> body, outcome |-> o]

\* A help request reads the state of the bot and changes none of it: a
\* behaviour serves one request, which covers every request.  NexusHelp
\* serves it while it is bot.help_command.
HelpRequested == help_req = NoHelp /\ help_command.cls = "NexusHelp"

\* send_bot_help: one message listing the visible cogs.
send_bot_help ==
    \E a \in Authors, o \in Outcomes :
        /\ HelpRequested
        /\ help_req' = [kind |-> "bot", author |-> a, topic |-> None]
        /\ help_out' = <<Delivery("bot", _get_bot_help(a), o)>>
        /\ UNCHANGED <<cogs, owner_id, owner_ids, swapVars>>
        /\ UNCHANGED notHelp

\* send_cog_help: _get_cog_help sends the not-found error itself and returns
\* None, which send_cog_help then hands to _send; otherwise the pages of the
\* cog's filtered commands are sent, as one embed when there is one page.
send_cog_help ==
    \E a \in Authors, cog \in HelpCogSet, o1 \in Outcomes, o2 \in Outcomes :
    \E removed \in {{}} \cup {{c} : c \in 1..Len(cogs[cog].commands)} :
        /\ HelpRequested
        /\ help_req' = [kind |-> "cog", author |-> a, topic |-> cog, removed |-> removed]
        /\ IF ~_show(cog, a)
             THEN help_out' =
                    IF o1 = "ok"
                      THEN <<Delivery("error", <<"command_not_found">>, o1),
                             Delivery("none", <<>>, o2)>>
                      ELSE <<Delivery("error", <<"command_not_found">>, o1)>>
             ELSE /\ o2 = "ok"
                  /\ LET pages == grouped(filter_commands(cogs[cog].commands, removed)) IN
                     help_out' = <<Delivery(IF Len(pages) = 1 THEN "embed" ELSE "embeds",
                                            pages, o1)>>
        /\ UNCHANGED <<cogs, owner_id, owner_ids, swapVars>>
        /\ UNCHANGED notHelp

\* send_command_help and send_group_help of a command of a cog: the not-found
\* error, or the embed of the command.
send_command_help ==
    \E a \in Authors, cog \in HelpCogSet, o \in Outcomes :
    \E c \in 1..Len(cogs[cog].commands) :
        /\ HelpRequested
        /\ help_req' = [kind |-> "command", author |-> a, topic |-> <<cog, c>>]
        /\ help_out' = IF ~_show(cog, a)
                         THEN <<Delivery("error", <<"command_not_found">>, o)>>
                         ELSE <<Delivery("embed", <<<<c>>>>, o)>>
        /\ UNCHANGED <<cogs, owner_id, owner_ids, swapVars>>
        /\ UNCHANGED notHelp

InitHelp == ModIdle /\ HelpInit /\ UtilInit /\ DevInit /\ BotInit

NextHelp == send_bot_help \/ send_cog_help \/ send_command_help

SpecHelp == InitHelp /\ [][NextHelp]_vars

(***************************************************************************)
(* Help.py: the Help cog                                                   *)
(***************************************************************************)
\* cog_unload restoring the library's default help command.
restored_default(cog) == DefaultHelpCommand
\* `self.bot.help_command = self._old_help_command`
restored(cog) == cog._old_help_command

\* setup: `bot.add_cog(Help(bot))`.  Help.__init__ remembers
\* bot.help_command and puts a new NexusHelp in its place.  load_extension
\* refuses an extension that is loaded.
Help_init ==
    /\ ~help_cog.loaded
    /\ nexus_helps < MaxLoads
    /\ help_cog' = [loaded |-> TRUE, _old_help_command |-> help_command]
    /\ help_command' = NexusHelp(nexus_helps + 1)
    /\ nexus_helps' = nexus_helps + 1
    /\ UNCHANGED <<cogs, owner_id, owner_ids, help_req, help_out, help_first>>
    /\ UNCHANGED notHelp

\* The extension is unloaded: remove_cog calls Help.cog_unload.
cog_unload ==
    /\ help_cog.loaded
    /\ help_command' = restored(help_cog)
    /\ help_cog' = NoHelpCog
    /\ UNCHANGED <<cogs, owner_id, owner_ids, help_req, help_out, nexus_helps,
                   help_first>>
    /\ UNCHANGED notHelp

\* A bot constructed with the default help command or with none, before the
\* Help extension is loaded.
InitSwap ==
    /\ ModIdle /\ UtilInit /\ DevInit /\ BotInit
    /\ cogs \in [HelpCogSet -> [hidden : BOOLEAN, commands : {Commands(n) : n \in 0..1}]]
    /\ owner_id = "u1"
    /\ owner_ids = {"u2"}
    /\ help_req = NoHelp
    /\ help_out = <<>>
    /\ help_command \in {DefaultHelpCommand, NoHelpCommand}
    /\ help_cog = NoHelpCog
    /\ nexus_helps = 0
    /\ help_first = help_command

NextSwap ==
    Help_init \/ cog_unload \/ send_bot_help \/ send_cog_help \/ send_command_help

SpecSwap == InitSwap /\ [][NextSwap]_vars

(***************************************************************************)
(* Properties of the help command.                                         *)
(***************************************************************************)
\* The help command of the bot and the one the Help cog remembers, in terms
\* of the help command that was active before the first load.
HelpHotSwap ==
    /\ help_cog.loaded =>
          /\ help_command = NexusHelp(nexus_helps)
          /\ help_cog._old_help_command = help_first
    /\ ~help_cog.loaded => help_command = help_first

\* C11: always, while Help is loaded, bot.help_command is the NexusHelp of
\* that load and the cog remembers the help command that was active just
\* before it, and while Help is not loaded, after any number of loads and
\* unloads, bot.help_command is the one that was active before the first
\* load; and a help invocation leaves bot.help_command as it is.
C11_HelpHotSwap ==
    /\ []HelpHotSwap
    /\ [][help_req' # help_req => help_command' = help_command]_vars

\* C11 has acted: a bot constructed without a help command has had Help
\* loaded and unloaded twice, a help request was served in between, and the
\* bot is without a help command again.
C11_Witness ==
    /\ help_first = NoHelpCommand
    /\ nexus_helps = 2
    /\ ~help_cog.loaded
    /\ help_req # NoHelp
    /\ help_command = NoHelpCommand

\* The invoker is an owner of the bot.
IsOwner(a) == a = owner_id \/ a \in owner_ids

\* C5: bot-wide help lists exactly the cogs of the mapping that have at least
\* one command and that are not hidden or are asked for by an owner; a cog
\* without commands is never listed, and the None key never is.
C5_HelpVisibility ==
    help_req.kind = "bot" =>
        LET listed == help_out[1].body
            shown(cog) == /\ Len(cogs[cog].commands) > 0
                          /\ (cogs[cog].hidden => IsOwner(help_req.author)) IN
        /\ Len(help_out) = 1
        /\ \A cog \in HelpCogSet :
              (\E i \in 1..Len(listed) : listed[i] = cog) <=> shown(cog)
        /\ \A i \in 1..Len(listed) : listed[i] \in HelpCogSet
        /\ \A i, j \in 1..Len(listed) : i # j => listed[i] # listed[j]

\* C5 has acted: an owner asked for bot-wide help of a bot with a hidden cog
\* that has commands and a cog without commands, and only the former is listed.
C5_Witness ==
    /\ help_req.kind = "bot"
    /\ IsOwner(help_req.author)
    /\ cogs["A"].hidden /\ Len(cogs["A"].commands) > 0
    /\ Len(cogs["B"].commands) = 0
    /\ help_out[1].body = <<"A">>

\* The concatenation of the pages of a delivery.
RECURSIVE Flatten(_)
Flatten(pages) ==
    IF pages = <<>> THEN <<>> ELSE Head(pages) \o Flatten(Tail(pages))

\* C6: per-cog help of a visible cog splits the filtered commands, in order,
\* into consecutive pages that together list every command once, every page
\* but the last listing exactly PER_PAGE commands and the last at least one.
C6_HelpPagination ==
    (help_req.kind = "cog" /\ help_out[1].kind \in {"embed", "embeds"}) =>
        LET pages == help_out[1].body
            commands == filter_commands(cogs[help_req.topic].commands, help_req.removed) IN
        /\ Flatten(pages) = commands
        /\ \A k \in 1..Len(pages) :
              IF k < Len(pages) THEN Len(pages[k]) = PER_PAGE
                                ELSE Len(pages[k]) \in 1..PER_PAGE
        /\ Len(commands) = 10 => Len(pages) = 1
        /\ Len(commands) = 11 => (Len(pages) = 2 /\ Len(pages[2]) = 1)

\* What the code does with up to PER_PAGE commands (not a claim): one page
\* holding all of them.
HelpPaginationOnePage ==
    (help_req.kind = "cog" /\ help_out[1].kind \in {"embed", "embeds"}) =>
        LET pages == help_out[1].body
            commands == filter_commands(cogs[help_req.topic].commands, help_req.removed) IN
        Len(commands) \in 1..PER_PAGE => pages = <<commands>>

(***************************************************************************)
(* Utility.py: redirectcheck                                               *)
(***************************************************************************)
\* A URL is modelled by which of the two watched host names occur in it.
Watched == {"grabify.link", "iplogger.org"}
Urls == SUBSET Watched
\* `sub in str(url.url)`
contains(url, sub) == sub \in url

\* The chains a fetch can return: resp.history followed by resp.
Histories == UNION {[1..n -> Urls] : n \in 1..(MaxHops + 1)}

\* One line of `urls`: str(url.url), or the same behind the warning sign.
render(url) ==
    IF ~contains(url, "grabify.link") \/ ~contains(url, "iplogger.org")
      THEN [url |-> url, marked |-> FALSE]
      ELSE [url |-> url, marked |-> TRUE]

\* `"\n".join(... for url in history[1:])`
urls_of(history) == [i \in 1..(Len(history) - 1) |-> render(history[i + 1])]

\* `sub in urls`, for a watched host name.
urls_contain(urls, sub) == \E i \in 1..Len(urls) : contains(urls[i].url, sub)

\* The service the warning sentence names.
warning_of(urls) ==
    IF urls_contain(urls, "grabify.link") THEN "a grabify.link"
    ELSE IF urls_contain(urls, "iplogger.org") THEN "an iplogger.org"
    ELSE "a logging"

\* The embed of _redirectcheck: the lines, and the warning sentence when a
\* line carries the warning sign.
redirect_embed(urls) ==
    Response("paginate", <<>>, urls,
             IF \E i \in 1..Len(urls) : urls[i].marked THEN warning_of(urls) ELSE None)

\* redirectcheck is invoked and runs to its end: the fetch times out, rejects
\* the URL or returns a chain.
_redirectcheck ==
    \E fetch \in {"TimeoutError", "InvalidURL", "ok"}, history \in Histories,
       o \in Outcomes :
        /\ fetch # "ok" => Len(history) = 1
        /\ redirect_req' = [fetch |-> fetch, history |-> history, outcome |-> o]
        /\ redirect_out' =
             IF fetch = "TimeoutError"
               THEN Response("error", <<"The request timed out!">>, <<>>, None)
             ELSE IF fetch = "InvalidURL"
               THEN Response("error", <<"Invalid url!">>, <<>>, None)
             ELSE IF urls_of(history) # <<>>
               THEN redirect_embed(urls_of(history))
             ELSE Response("error", <<" does not redirect!">>, <<render(history[1])>>, None)
        /\ UNCHANGED <<rtfm_req, rtfm_out, ocrVars>>
        /\ UNCHANGED notUtil

InitUtil == ModIdle /\ HelpIdle /\ UtilInit /\ DevInit /\ BotInit

SpecRedirect == InitUtil /\ [][_redirectcheck]_vars

\* The last redirectcheck got a chain from its fetch.
Fetched == redirect_req.fetch = "ok"

\* C7: when the chain has a hop after the initial request, every hop whose URL
\* contains grabify.link or iplogger.org is listed behind the warning sign,
\* and when there is such a hop the response carries the warning sentence
\* naming the first detected service; a chain without a hop yields the
\* 'does not redirect!' error.
C7_RedirectFlagging ==
    Fetched =>
        LET history == redirect_req.history
            watched(i) == history[i] # {}
            service == IF \E i \in 2..Len(history) : "grabify.link" \in history[i]
                         THEN "a grabify.link" ELSE "an iplogger.org" IN
        IF Len(history) > 1
          THEN /\ redirect_out.kind = "paginate"
               /\ Len(redirect_out.urls) = Len(history) - 1
               /\ \A i \in 2..Len(history) :
                     /\ redirect_out.urls[i - 1].url = history[i]
                     /\ watched(i) => redirect_out.urls[i - 1].marked
               /\ (\E i \in 2..Len(history) : watched(i)) => redirect_out.about = service
          ELSE /\ redirect_out.kind = "error"
               /\ redirect_out.text = <<" does not redirect!">>

\* What the code does (not a claim): a hop is marked only when its URL
\* contains both host names, and the warning follows the marks.
RedirectFlagsBoth ==
    Fetched /\ Len(redirect_req.history) > 1 =>
        /\ \A i \in 1..Len(redirect_out.urls) :
              redirect_out.urls[i].marked <=> redirect_out.urls[i].url = Watched
        /\ redirect_out.about # None <=>
              \E i \in 1..Len(redirect_out.urls) : redirect_out.urls[i].url = Watched

(***************************************************************************)
(* Utility.py: rtfm                                                        *)
(***************************************************************************)
\* DESTINATIONS
DESTINATIONS ==
    [k \in {"dpy", "dpy2", "edpy", "py", "py2"} |->
        CASE k = "dpy" -> "https://discordpy.readthedocs.io/en/stable"
          [] k = "dpy2" -> "https://discordpy.readthedocs.io/en/master"
          [] k = "edpy" -> "https://enhanced-dpy.readthedocs.io/en/latest"
          [] k = "py" -> "https://docs.python.org/3"
          [] k = "py2" -> "https://docs.python.org/2"]

\* The words tried as the location of rtfm.
Locations ==
    {"dpy", "dpy2", "edpy", "py", "py2",
     "discord.py", "discordpy",
     "discord.py2", "discord.py-2", "discordpy2", "discordpy-2", "dpy-2",
     "enhanced-discord.py", "enhanced-discordpy",
     "python", "python3", "py3", "python2",
     "list", "LIST", "Python3", "DPY",
     "https://example.com/docs", "foo"}

\* str.lower on the words above.
lower(str) ==
    CASE str = "LIST" -> "list"
      [] str = "Python3" -> "python3"
      [] str = "DPY" -> "dpy"
      [] OTHER -> str

\* `re.match(URL_REGEX, arg) is not None` on the words above.
is_url(str) == str = "https://example.com/docs"

\* IdevisionLocation.convert: the value returned, or the BadArgument raised.
convert(arg) ==
    IF lower(arg) = "list" THEN [ok |-> TRUE, value |-> arg]
    ELSE
      LET a1 == IF lower(arg) \in {"discord.py", "discordpy"} THEN "dpy" ELSE arg
          a2 == IF lower(a1) \in {"discord.py2", "discord.py-2", "discordpy2",
                                  "discordpy-2", "dpy-2"} THEN "dpy2" ELSE a1
          a3 == IF lower(a2) \in {"enhanced-discord.py", "enhanced-discordpy"}
                  THEN "edpy" ELSE a2
          a4 == IF lower(a3) \in {"python", "python3", "py3"} THEN "py" ELSE a3
          a5 == IF lower(a4) \in {"python2"} THEN "py2" ELSE a4
      IN IF a5 \in DOMAIN DESTINATIONS THEN [ok |-> TRUE, value |-> a5]
         ELSE IF is_url(a5) THEN [ok |-> TRUE, value |-> a5]
         ELSE [ok |-> FALSE, value |-> <<a5, " is not a valid rtfm location!">>]

\* The arguments _rtfm is called with for the words `first` and `rest` that
\* follow the command name.  location is declared
\* `Optional[IdevisionLocation] = "py"`: when the converter raises on the
\* first word, the command framework leaves that word to the next parameter
\* and binds the default.  query takes what is left, None when nothing is.
bind(first, rest) ==
    IF first = None THEN [location |-> "py", query |-> <<>>]
    ELSE IF convert(first).ok THEN [location |-> convert(first).value, query |-> rest]
    ELSE [location |-> "py", query |-> <<first>> \o rest]

\* The body of _rtfm.
rtfm_body(location, query, found) ==
    IF query = <<>>
      THEN IF lower(location) = "list"
             THEN Response("embed", <<"list">>, <<>>, None)
           ELSE IF is_url(location)
             THEN Response("paginate", <<>>, <<>>, location)
           ELSE IF location \in DOMAIN DESTINATIONS
             THEN Response("paginate", <<>>, <<>>, DESTINATIONS[location])
           ELSE Response("error", <<location, " is not a valid rtfm location!">>, <<>>, None)
      ELSE LET base == IF location \in DOMAIN DESTINATIONS
                         THEN DESTINATIONS[location] ELSE location IN
           IF found THEN Response("search", query, <<>>, base)
                    ELSE Response("error", <<"InvalidRtfmLibrary">>, <<>>, base)

\* rtfm is invoked with at most a location word and a query, and runs to its
\* end; the search service knows the library or raises InvalidRtfmLibrary.
_rtfm ==
    \E first \in Locations \cup {None}, rest \in {<<>>, <<"query">>}, found \in BOOLEAN,
       o \in Outcomes :
        LET args == bind(first, rest) IN
        /\ first = None => rest = <<>>
        /\ rtfm_req' = [invoked |-> TRUE, first |-> first, rest |-> rest,
                        location |-> args.location, query |-> args.query,
                        found |-> found, outcome |-> o]
        /\ rtfm_out' = rtfm_body(args.location, args.query, found)
        /\ UNCHANGED <<redirect_req, redirect_out, ocrVars>>
        /\ UNCHANGED notUtil

SpecRtfm == InitUtil /\ [][_rtfm]_vars

\* The synonym table of the claim: the alias a synonym stands for.
Canonical(w) ==
    CASE w \in {"discordpy", "discord.py"} -> "dpy"
      [] w \in {"python", "python3", "py3"} -> "py"
      [] w \in {"python2"} -> "py2"
      [] w \in {"discord.py2", "discord.py-2", "discordpy2", "discordpy-2", "dpy-2"} -> "dpy2"
      [] w \in {"enhanced-discord.py", "enhanced-discordpy"} -> "edpy"
      [] OTHER -> None

\* C8: a synonym, in any case, resolves to the base URL of its alias; a known alias or a URL
\* is taken verbatim; any other location word that is not 'list' yields the
\* invalid-location error and is neither searched nor echoed.
C8_RtfmNormalization ==
    (rtfm_req.invoked /\ rtfm_req.first # None) =>
        LET w == rtfm_req.first IN
        IF Canonical(lower(w)) # None
          THEN /\ rtfm_req.location = Canonical(lower(w))
               /\ rtfm_out.about = DESTINATIONS[Canonical(lower(w))]
        ELSE IF w \in DOMAIN DESTINATIONS \/ is_url(w)
          THEN rtfm_req.location = w
        ELSE IF lower(w) = "list"
          THEN TRUE
        ELSE /\ rtfm_out.kind = "error"
             /\ rtfm_out.text = <<w, " is not a valid rtfm location!">>

\* What holds of the converter alone (not a claim): it raises the
\* invalid-location error for exactly the words that, normalized, are neither
\* 'list', nor an alias, nor a URL.
ConvertRejects ==
    \A w \in Locations :
        ~convert(w).ok <=>
            /\ lower(w) # "list"
            /\ Canonical(lower(w)) = None
            /\ w \notin DOMAIN DESTINATIONS
            /\ ~is_url(w)

\* What the command does with a word the converter rejects (not a claim): it
\* searches the default location for that word.
RtfmRejectedWordIsSearched ==
    (rtfm_req.invoked /\ rtfm_req.first # None /\ ~convert(rtfm_req.first).ok) =>
        /\ rtfm_req.location = "py"
        /\ rtfm_req.query = <<rtfm_req.first>> \o rtfm_req.rest
        /\ rtfm_out.about = DESTINATIONS["py"]
        /\ rtfm_out.kind = IF rtfm_req.found THEN "search" ELSE "error"
        /\ rtfm_out.text # <<rtfm_req.first, " is not a valid rtfm location!">>

(***************************************************************************)
(* Developer.py: sync                                                      *)
(***************************************************************************)
\* The lists of at most MaxGuilds guilds.
GuildLists == UNION {[1..n -> Guilds] : n \in 0..MaxGuilds}

\* One operation on bot.tree.
TreeOp(op, scope, o) == [op |-> op, scope |-> scope, outcome |-> o]

\* The counter of the loop with its increment made whatever the sync did.
count_always(ret, o) == ret + 1
\* `except discord.HTTPException: pass / else: ret += 1`; Forbidden is an
\* HTTPException.
count(ret, o) == IF o = "ok" THEN ret + 1 ELSE ret

\* f"Synced the tree to {ret}/{len(guilds)}."
SyncedTo(ret, total) == <<"Synced the tree to ", ret, "/", total, ".">>
\* f"Synced {len(synced)} commands {'globally' if spec in [None, '^*'] else ...}"
SyncedCommands(n, spec) ==
    <<"Synced ", n, " commands ",
      IF spec \in {None, "^*"} THEN "globally" ELSE "to the current guild.">>

\* sync is invoked and runs to its first await.  Without guilds, the tree is
\* copied or cleared as spec says and one sync is awaited; with guilds, the
\* loop starts.  A behaviour follows one invocation.
_sync ==
    /\ sync_pc = "idle"
    /\ \E guilds \in GuildLists, spec \in SyncSpecs :
        /\ sync_args' = [guilds |-> guilds, spec |-> spec]
        /\ sync_sent' = <<>>
        /\ IF guilds = <<>>
             THEN /\ sync_pc' = "tree_sync"
                  /\ sync_frame' = NoSyncFrame
                  /\ CASE spec = "*" ->
                            /\ tree' = [tree EXCEPT ![Here] = @ \cup tree[Global]]
                            /\ sync_log' = <<TreeOp("copy_global_to", Here, "ok")>>
                       [] spec = "^" ->
                            /\ tree' = [tree EXCEPT ![Here] = {}]
                            /\ sync_log' = <<TreeOp("clear_commands", Here, "ok")>>
                       [] spec = "^*" ->
                            /\ tree' = [tree EXCEPT ![Global] = {}]
                            /\ sync_log' = <<TreeOp("clear_commands", Global, "ok")>>
                       [] OTHER ->
                            /\ tree' = tree
                            /\ sync_log' = <<>>
             ELSE /\ sync_pc' = "tree_sync_guild"
                  /\ sync_frame' = [NoSyncFrame EXCEPT !.i = 1]
                  /\ sync_log' = <<>>
                  /\ tree' = tree
    /\ UNCHANGED notDev

\* `await self.bot.tree.sync(...)` of the path without guilds completes; a
\* failure leaves the handler.
tree_sync ==
    /\ sync_pc = "tree_sync"
    /\ \E o \in Outcomes :
        LET spec == sync_args.spec
            scope == IF spec \in {None, "^*"} THEN Global ELSE Here
            synced == IF spec \in {"^", "^*"} THEN 0 ELSE Cardinality(tree[scope]) IN
        /\ sync_log' = Append(sync_log, TreeOp("sync", scope, o))
        /\ IF o = "ok"
             THEN /\ sync_pc' = "send"
                  /\ sync_frame' = [sync_frame EXCEPT !.synced = synced,
                                       !.report = SyncedCommands(synced, spec)]
             ELSE /\ sync_pc' = "raised"
                  /\ UNCHANGED sync_frame
    /\ UNCHANGED <<tree, sync_args, sync_sent>>
    /\ UNCHANGED notDev

\* `await self.bot.tree.sync(guild=guild)` of the loop completes for one
\* guild; the loop goes on, or ends with the report to send.
tree_sync_guild ==
    /\ sync_pc = "tree_sync_guild"
    /\ \E o \in Outcomes :
        LET i == sync_frame.i
            guilds == sync_args.guilds
            ret == count(sync_frame.ret, o) IN
        /\ sync_log' = Append(sync_log, TreeOp("sync", guilds[i], o))
        /\ IF i < Len(guilds)
             THEN /\ sync_pc' = "tree_sync_guild"
                  /\ sync_frame' = [sync_frame EXCEPT !.i = i + 1, !.ret = ret]
             ELSE /\ sync_pc' = "send"
                  /\ sync_frame' = [sync_frame EXCEPT !.i = i + 1, !.ret = ret,
                                       !.report = SyncedTo(ret, Len(guilds))]
    /\ UNCHANGED <<tree, sync_args, sync_sent>>
    /\ UNCHANGED notDev

\* `await ctx.send(...)` completes.
sync_send ==
    /\ sync_pc = "send"
    /\ \E o \in Outcomes :
        /\ sync_sent' = Append(sync_sent, [msg |-> sync_frame.report, outcome |-> o])
        /\ sync_pc' = IF o = "ok" THEN "returned" ELSE "raised"
    /\ UNCHANGED <<tree, sync_args, sync_frame, sync_log>>
    /\ UNCHANGED notDev

NextSync == _sync \/ tree_sync \/ tree_sync_guild \/ sync_send

SpecSync == InitUtil /\ [][NextSync]_vars

\* The number of operations of the log that succeeded.
Succeeded(log) == Cardinality({k \in 1..Len(log) : log[k].outcome = "ok"})

\* C9: a sync given guilds ignores spec: it leaves the tree as it is and syncs
\* the listed guilds in order, going on after a failure, and its report is
\* 'Synced the tree to {succeeded}/{total}.' with total the number of listed
\* guilds and succeeded the number of syncs that did not fail.
C9_SyncGuildList ==
    sync_args.guilds # <<>> =>
        LET guilds == sync_args.guilds IN
        /\ sync_pc \in {"tree_sync_guild", "send", "returned", "raised"}
        /\ Len(sync_log) = sync_frame.i - 1
        /\ \A k \in 1..Len(sync_log) :
              sync_log[k].op = "sync" /\ sync_log[k].scope = guilds[k]
        /\ sync_pc = "tree_sync_guild" => sync_frame.i \in 1..Len(guilds)
        /\ sync_pc \in {"send", "returned", "raised"} =>
              /\ Len(sync_log) = Len(guilds)
              /\ sync_frame.report = SyncedTo(Succeeded(sync_log), Len(guilds))
        /\ sync_pc \in {"returned", "raised"} =>
              /\ Len(sync_sent) = 1
              /\ sync_sent[1].msg = SyncedTo(Succeeded(sync_log), Len(guilds))
        /\ sync_pc = "raised" => sync_sent[1].outcome # "ok"

\* C9 has acted: three guilds were given with a spec, exactly the second sync
\* failed, and the report delivered reads 2/3.
C9_Witness ==
    /\ Len(sync_args.guilds) = 3
    /\ sync_args.spec = "^"
    /\ sync_pc = "returned"
    /\ sync_log[1].outcome = "ok"
    /\ sync_log[2].outcome = "HTTPException"
    /\ sync_log[3].outcome = "ok"
    /\ sync_sent = <<[msg |-> <<"Synced the tree to ", 2, "/", 3, ".">>, outcome |-> "ok"]>>

(***************************************************************************)
(* bot.py: Nexus.__init__                                                  *)
(***************************************************************************)
\* The lists of at most MaxCogs extension names.
CogLists == UNION {[1..n -> CogNames] : n \in 0..MaxCogs}
\* What the call `self.load_extension(cog)` may do: load the extension and
\* return; return a coroutine that is never awaited, where the library
\* declares load_extension `async def` (Developer.py line 54 is written for
\* such a library, the cogs for one where it is a plain function); or raise.
LoadOutcomes == {"ok", "NotAwaited", "ExtensionNotFound", "ExtensionFailed"}
\* The call raised nothing.
returns(o) == o \in {"ok", "NotAwaited"}

\* The handler of the loop catching ExtensionNotFound alone.
caught_not_found(o) == o = "ExtensionNotFound"
\* `except Exception as e:` catches whatever load_extension raises.
caught(o) == ~returns(o)

\* The configuration is read: `cogs = self.config.data.cogs`; `if cogs:`
\* enters the loop, otherwise the construction completes.
Nexus_init ==
    /\ load_pc = "init"
    /\ \E cs \in CogLists :
        /\ config_cogs' = cs
        /\ IF cs # <<>>
             THEN load_pc' = "load_extension" /\ load_frame' = 1
             ELSE load_pc' = "constructed" /\ load_frame' = 0
    /\ UNCHANGED <<load_log, printed, extensions>>
    /\ UNCHANGED notBot

\* `self.load_extension(cog)` inside the try: it returns, or raises and the
\* traceback is printed; after the last cog `super().__init__` completes the
\* construction.  An extension that is loaded cannot be loaded again.
load_extension ==
    /\ load_pc = "load_extension"
    /\ \E o \in LoadOutcomes :
        LET cog == config_cogs[load_frame] IN
        /\ o = "ok" => cog \notin extensions
        /\ load_log' = Append(load_log, [cog |-> cog, outcome |-> o])
        /\ extensions' = IF o = "ok" THEN extensions \cup {cog} ELSE extensions
        /\ IF returns(o) \/ caught(o)
             THEN /\ printed' = IF returns(o) THEN printed ELSE Append(printed, cog)
                  /\ IF load_frame < Len(config_cogs)
                       THEN load_pc' = "load_extension" /\ load_frame' = load_frame + 1
                       ELSE load_pc' = "constructed" /\ load_frame' = load_frame + 1
             ELSE /\ load_pc' = "raised"
                  /\ UNCHANGED <<printed, load_frame>>
    /\ UNCHANGED config_cogs
    /\ UNCHANGED notBot

NextLoad == Nexus_init \/ load_extension

SpecLoad == InitUtil /\ [][NextLoad]_vars

\* The cogs of the failed attempts of a log, in order.
RECURSIVE Failures(_)
Failures(log) ==
    IF log = <<>> THEN <<>>
    ELSE IF returns(Head(log).outcome) THEN Failures(Tail(log))
    ELSE <<Head(log).cog>> \o Failures(Tail(log))

\* C10: the construction attempts to load the configured extensions in list
\* order, each entry once; a failed load is caught and printed, the loads after
\* it are still attempted, and the construction completes.
C10_StartupLoading ==
    /\ load_pc \in {"init", "load_extension", "constructed"}
    /\ Len(load_log) <= Len(config_cogs)
    /\ \A k \in 1..Len(load_log) : load_log[k].cog = config_cogs[k]
    /\ printed = Failures(load_log)
    /\ load_pc = "load_extension" =>
          /\ load_frame = Len(load_log) + 1
          /\ ENABLED load_extension
    /\ load_pc = "constructed" => Len(load_log) = Len(config_cogs)

\* C10 has acted: of three configured extensions the first failed to load,
\* the other two were loaded, and the bot is constructed.
C10_Witness ==
    /\ load_pc = "constructed"
    /\ Len(config_cogs) = 3
    /\ load_log[1].outcome = "ExtensionFailed"
    /\ load_log[2].outcome = "ok"
    /\ load_log[3].outcome = "ok"
    /\ printed = <<config_cogs[1]>>

(***************************************************************************)
(* Properties of concurrent mutes.                                         *)
(***************************************************************************)
\* C12: the guild never holds more roles named Muted than there are mute
\* invocations in flight together, and it holds more than one only when an
\* invocation started while another was running: invocations that run one
\* after another create at most one.
C12_MuteRoleRace ==
    /\ Cardinality(roles) <= Cardinality(Procs)
    /\ Cardinality(roles) > 1 => overlapped
    /\ \A p \in Procs : pc[p] = "create_role" => ctx[p].cmd = "mute"

\* C12 has acted: two mutes that both found no Muted role have each created
\* one, and the guild holds two roles named Muted.
C12_Witness ==
    /\ Cardinality(roles) = 2
    /\ \A p \in Procs :
          /\ ctx[p].cmd = "mute"
          /\ Len(calls[p]) > 0
          /\ calls[p][1].op = "guild.create_role"
          /\ calls[p][1].outcome = "ok"

(***************************************************************************)
(* Utility.py: ocr                                                         *)
(***************************************************************************)
\* The text after the command name, as its words; <<>> is no text (None).
OcrTexts == {<<>>, <<"url">>, <<"--invert">>, <<"url", "--invert">>,
             <<"--invert", "url">>, <<"--invert", "--invert">>}
\* What `session.get(url)` followed by `resp.read()` can do: raise, or give
\* bytes that are an image, bytes that are no image, or no bytes (b"").
Fetches == {"InvalidURL", "ClientError"} \cup {"image", "junk", "empty"}
\* ctx.message.attachments[0], or None for a message without attachments.
Attachments == {None, "image", "junk"}
\* ctx.message.reference: None for a message that is no reply; a reply whose
\* message is resolved, with a first attachment or without attachments; a
\* reply whose message is not resolved (it was deleted, or was not fetched).
References == {None, "image", "junk", "bare", "unresolved"}

\* `"--invert" in image`
has_invert(text) == \E i \in 1..Len(text) : text[i] = "--invert"
\* `image.replace("--invert", "")`: the words left, and whether the string
\* left is non-empty (the spaces between the words stay).
replace_invert(text) ==
    LET word(w) == w # "--invert" IN
    [words |-> SelectSeq(text, word),
     truthy |-> SelectSeq(text, word) # <<>> \/ Len(text) > 1]

\* Python's truth of the local variable `image` holding bytes or None.
truthy(image) == image.bytes \notin {None, "empty"}

\* Lines 255-260: `if not image:` the own attachment is read, and then, in a
\* second `if`, the attachment of the replied-to message is read over it.
\* `ref.resolved.attachments` raises AttributeError for an unresolved reply.
attached(image, own, ref) ==
    IF truthy(image) THEN [raised |-> FALSE, image |-> image]
    ELSE LET first == IF own # None THEN [from |-> "own", bytes |-> own] ELSE image IN
         IF ref = None THEN [raised |-> FALSE, image |-> first]
         ELSE IF ref = "unresolved" THEN [raised |-> TRUE, image |-> first]
         ELSE IF ref = "bare" THEN [raised |-> FALSE, image |-> first]
         ELSE [raised |-> FALSE, image |-> [from |-> "ref", bytes |-> ref]]

\* _ocr from line 255 on: the attachments, the decoding, the delivery.
ocr_tail(image, invert, own, ref, o) ==
    LET a == attached(image, own, ref) IN
    IF a.raised THEN OcrResult("raised", a.image, invert)
    ELSE IF a.image.bytes # "image"
      THEN OcrResult(IF o = "ok" THEN "error" ELSE "raised", a.image, invert)
    ELSE OcrResult(IF o = "ok" THEN "paginate" ELSE "raised", a.image, invert)

\* The whole of _ocr.  A text of which nothing but spaces is left is fetched
\* as the empty URL, which is invalid.
ocr_body(text, fetch, own, ref, o) ==
    IF text = <<>> THEN ocr_tail(NoImage, FALSE, own, ref, o)
    ELSE LET invert == has_invert(text)
             left == replace_invert(text) IN
         IF ~left.truthy THEN ocr_tail(NoImage, invert, own, ref, o)
         ELSE IF fetch = "InvalidURL" \/ left.words = <<>>
           THEN OcrResult(IF o = "ok" THEN "error" ELSE "raised", NoImage, invert)
         ELSE IF fetch = "ClientError" THEN OcrResult("raised", NoImage, invert)
         ELSE ocr_tail([from |-> "url", bytes |-> fetch], invert, own, ref, o)

\* ocr is invoked; nothing is fetched for a text that names no URL.
_ocr ==
    \E text \in OcrTexts, fetch \in Fetches \cup {None}, own \in Attachments,
       ref \in References, o \in Outcomes :
        /\ fetch = None <=> replace_invert(text).words = <<>>
        /\ ocr_req' = [invoked |-> TRUE, text |-> text, fetch |-> fetch, own |-> own,
                       ref |-> ref, outcome |-> o]
        /\ ocr_out' = ocr_body(text, fetch, own, ref, o)
        /\ UNCHANGED <<redirect_req, redirect_out, rtfm_req, rtfm_out>>
        /\ UNCHANGED notUtil

SpecOcr == InitUtil /\ [][_ocr]_vars

\* The text of the last ocr names a URL, which was fetched as an image.
OcrUrlFetched ==
    /\ replace_invert(ocr_req.text).words # <<>>
    /\ ocr_req.fetch = "image"
\* The text of the last ocr leaves no URL.
OcrNoUrl == replace_invert(ocr_req.text).words = <<>>

\* C14: the image read is the one fetched from the URL of the text when the
\* text, without '--invert', leaves a URL; otherwise the first attachment of
\* the invoking message when it has one; otherwise the first attachment of the
\* replied-to message when the invocation is a reply; and when none of them
\* gives an image the response is 'Please attach a valid image!'.
C14_OcrSourceOrder ==
    (ocr_req.invoked /\ ocr_req.outcome = "ok") =>
        IF OcrUrlFetched
          THEN ocr_out.kind = "paginate" /\ ocr_out.image.from = "url"
        ELSE IF OcrNoUrl /\ ocr_req.own # None
          THEN /\ ocr_out.image = [from |-> "own", bytes |-> ocr_req.own]
               /\ ocr_out.kind = IF ocr_req.own = "image" THEN "paginate" ELSE "error"
        ELSE IF OcrNoUrl /\ ocr_req.ref \in {"image", "junk"}
          THEN /\ ocr_out.image = [from |-> "ref", bytes |-> ocr_req.ref]
               /\ ocr_out.kind = IF ocr_req.ref = "image" THEN "paginate" ELSE "error"
        ELSE IF OcrNoUrl
          THEN ocr_out.kind = "error"
        ELSE TRUE

\* What holds of the order: a fetched image is the one read, and without a
\* URL, an attachment or a reply the response is the error.
OcrUrlFirst ==
    (ocr_req.invoked /\ ocr_req.outcome = "ok") =>
        /\ OcrUrlFetched => ocr_out.kind = "paginate" /\ ocr_out.image.from = "url"
        /\ (Len(ocr_req.text) <= 1 /\ OcrNoUrl /\ ocr_req.own = None
              /\ ocr_req.ref \in {None, "bare"}) => ocr_out.kind = "error"

\* What the code does when the text leaves no URL and the invocation is a
\* reply to a message with an attachment: that attachment is the image read,
\* whatever the invoking message has attached.
OcrReplyWins ==
    (ocr_req.invoked /\ Len(ocr_req.text) <= 1 /\ OcrNoUrl
        /\ ocr_req.ref \in {"image", "junk"}) =>
        ocr_out.image = [from |-> "ref", bytes |-> ocr_req.ref]

(***************************************************************************)
(* Properties of the not-found path of the help command.                   *)
(***************************************************************************)
\* The cog the last help request is about.
TopicCog == IF help_req.kind = "cog" THEN help_req.topic ELSE help_req.topic[1]
\* The last help request was about a cog, or a command of a cog, that the
\* invoker is not shown.
HelpNotShown ==
    /\ help_req.kind \in {"cog", "command"}
    /\ ~_show(TopicCog, help_req.author)

\* C16: help for a cog, a command or a group that fails the visibility rule
\* makes exactly one delivery through _send, the 'Error!' not-found message,
\* and none after it, for a cog as for a command.
C16_HelpNotFoundOnce ==
    HelpNotShown =>
        /\ Len(help_out) = 1
        /\ help_out[1].kind = "error"

\* What the code does: the not-found path of a command makes the one
\* delivery, and that of a cog whose error was delivered makes a second one,
\* of the None that _get_cog_help returned.
HelpNotFoundOfCogTwice ==
    HelpNotShown =>
        /\ help_out[1].kind = "error"
        /\ help_req.kind = "command" => Len(help_out) = 1
        /\ (help_req.kind = "cog" /\ help_out[1].outcome = "ok") =>
              (Len(help_out) = 2 /\ help_out[2].kind = "none")
        /\ (help_req.kind = "cog" /\ help_out[1].outcome # "ok") => Len(help_out) = 1

(***************************************************************************)
(* Properties of the failures of the moderation cog.                       *)
(***************************************************************************)
\* The failure message that names the command of an invocation.
NamedFailure(c) ==
    CASE c.cmd = "ban" -> <<"Banning ", c.member, " failed!">>
      [] c.cmd = "unban" -> <<"Unbanning ", c.member, " failed!">>
      [] c.cmd = "mute" -> <<"Muting ", c.member, " failed!">>
      [] c.cmd = "unmute" -> <<"Unmuting ", c.member, " failed!">>
      [] c.cmd = "kick" -> <<"Kicking ", c.member, " failed!">>
      [] c.cmd = "slowmode" -> <<"Changing slowmode failed!">>

\* The last platform call of p failed.
LastCallFailed(p) ==
    Len(calls[p]) > 0 /\ calls[p][Len(calls[p])].outcome # "ok"
\* The last message p has sent or is sending.
LastEmitted(p) == Emitted(p)[Len(Emitted(p))]

\* C13: when a platform call of ban, unban, mute, unmute or kick has failed,
\* the invocation goes on to answer 'I couldn't do that for some reason!' for
\* an authorization failure and the failure message naming its command for
\* any other failure; the failure does not leave the handler.
C13_ErrorWrapping ==
    \A p \in Procs :
        LastCallFailed(p) =>
            /\ Len(Emitted(p)) > 0
            /\ LastEmitted(p) =
                  IF calls[p][Len(calls[p])].outcome = "Forbidden"
                    THEN ForbiddenError ELSE NamedFailure(ctx[p])

\* What the code does: a failure of guild.ban, guild.unban, add_roles,
\* remove_roles and guild.kick is answered with the message of its except
\* clause; a failure of create_role or set_permissions leaves the handler
\* with nothing sent.
ErrorWrappingOfTry ==
    \A p \in Procs :
        LastCallFailed(p) =>
            IF calls[p][Len(calls[p])].op \in {"guild.create_role", "channel.set_permissions"}
              THEN pc[p] = "raised" /\ responses[p] = <<>>
              ELSE /\ Len(Emitted(p)) > 0
                   /\ LastEmitted(p) =
                         IF calls[p][Len(calls[p])].outcome = "Forbidden"
                           THEN ForbiddenError ELSE FailedError(ctx[p])

\* The platform call that carries out a command.
MainOp(cmd) ==
    CASE cmd = "ban" -> "guild.ban"
      [] cmd = "unban" -> "guild.unban"
      [] cmd = "mute" -> "member.add_roles"
      [] cmd = "unmute" -> "member.remove_roles"
      [] cmd = "kick" -> "guild.kick"
      [] cmd = "slowmode" -> "channel.edit"
      [] OTHER -> None
\* The call that carries out the command of p has succeeded.
TookEffect(p) ==
    \E k \in 1..Len(calls[p]) :
        calls[p][k].op = MainOp(ctx[p].cmd) /\ calls[p][k].outcome = "ok"
\* p has sent or is sending one of the two failure messages.
ReportsFailure(p) ==
    \E i \in 1..Len(Emitted(p)) :
        Emitted(p)[i] \in {ForbiddenError, FailedError(ctx[p])}

\* C17: an invocation that reports 'I couldn't do that for some reason!' or
\* the failure message of its command has not carried out its mutation.
C17_FailureMeansNoEffect ==
    \A p \in Procs : ReportsFailure(p) => ~TookEffect(p)

\* What the code does: a failure is reported after the mutation only when the
\* delivery of the 'Done!' response, inside the same try, has failed.
FailureAfterEffect ==
    \A p \in Procs :
        (ReportsFailure(p) /\ TookEffect(p)) =>
            \E i \in 1..Len(responses[p]) :
                /\ responses[p][i].msg = DoneMessage(ctx[p], frame[p])
                /\ responses[p][i].outcome # "ok"

(***************************************************************************)
(* Properties of mute and unmute run one after another.                    *)
(***************************************************************************)
\* The decisions of mute and unmute once the guards are passed.
MuteDecisions ==
    \A p \in Sequential :
        LET m == ctx[p].member
            f == frame[p] IN
        /\ (ctx[p].cmd = "mute" /\ pc[p] = "return_error" /\ f.msg = AlreadyMuted(m)) =>
              f.role \in roles /\ f.role \in member_roles[m]
        /\ (ctx[p].cmd = "mute" /\ pc[p] = "add_roles") =>
              f.role \in roles /\ f.role \notin member_roles[m]
        /\ (ctx[p].cmd = "unmute" /\ pc[p] = "return_error" /\ f.msg = NotMuted(m)) =>
              roles = {} \/ f.role \notin member_roles[m]
        /\ (ctx[p].cmd = "unmute" /\ pc[p] = "remove_roles") =>
              f.role \in roles /\ f.role \in member_roles[m]

\* The steps that change the roles of the guild, and the steps of mute and
\* unmute that change the roles of a member.
MuteSteps ==
    /\ roles' # roles =>
          \E p \in Sequential : ctx[p].cmd = "mute" /\ pc[p] = "create_role"
    /\ \A p \in Sequential :
          LET m == ctx[p].member
              r == frame[p].role
              done == calls'[p][Len(calls'[p])].outcome = "ok" IN
          /\ pc[p] = "add_roles" =>
                member_roles' = IF done THEN [member_roles EXCEPT ![m] = @ \cup {r}]
                                        ELSE member_roles
          /\ pc[p] = "remove_roles" =>
                member_roles' = IF done THEN [member_roles EXCEPT ![m] = @ \ {r}]
                                        ELSE member_roles
          /\ ctx[p].cmd \in {"mute", "unmute"} /\ pc[p] \notin {"add_roles", "remove_roles"}
                => member_roles' = member_roles

\* C15: run one after another, a mute that passes the guards is rejected with
\* 'is already muted!' exactly when the target carries the Muted role and
\* otherwise adds it; an unmute is rejected with 'is not muted!' exactly when
\* there is no Muted role or the target does not carry it and otherwise
\* removes it; no other step of a mute or an unmute changes the roles of a
\* member, and only mute creates a role.
C15_MuteLifecycle == []MuteDecisions /\ [][MuteSteps]_vars

\* C15 has acted: a member that was muted has been unmuted: the Muted role
\* exists, the unmute answered 'Done!', and the member no longer carries it.
C15_Witness ==
    \E p \in Sequential :
        /\ ctx[p].cmd = "unmute"
        /\ pc[p] = "returned"
        /\ Delivered(p, DoneMessage(ctx[p], frame[p]))
        /\ roles # {}
        /\ member_roles[ctx[p].member] = {}

====
